---- MODULE Spec2Model ----
(***************************************************************************)
(* JarPy (src/jarpy.py): the aggregation and chunked-archiving pipeline.   *)
(*                                                                         *)
(*   create_archives       the Archive Packer          (SpecPack)          *)
(*   create_context_files  the Text Aggregator         (SpecCtx)           *)
(*   main                  the Pipeline Orchestrator   (SpecMain)          *)
(*   two runs of aggregation and packing on one tree   (SpecDet)           *)
(*                                                                         *)
(* Paths are modelled by what the code derives from them: a file of an     *)
(* extracted tree is a record of its sort rank (path), its bare name, its  *)
(* suffix (ext), its size and what the file system answers when the        *)
(* aggregator reaches it (fate); a bundle path is the pair of the file     *)
(* name stem and the part number that the code formats into the name.      *)
(***************************************************************************)
EXTENDS Integers, Sequences, FiniteSets, TLC

VARIABLES packer, ctx, run, det

vars == <<packer, ctx, run, det>>

\* ------------------------------------------------------------------ bounds
MaxFiles == 4          \* most files handed to create_archives
MaxChunk == 3          \* largest chunk_size tried (the smallest is -1)
MaxCtxFiles == 3       \* most files of the text key in create_context_files
MaxFileSize == 2       \* largest file size, in units of 20MB
MaxBundleBytes == 5    \* largest max_size_bytes, in units of 20MB (smallest -1)

None == "None"
\* outfile = None: no handle (a handle is named by the path it was opened on)
NoFile == [stem |-> <<>>, part |-> 0]
Idle == [pc |-> "idle"]

\* ------------------------------------------------------- keys and file names
\* A ClassificationKey, file_path.suffix.lower() or 'no_extension', as the
\* sequence of its tokens: a suffix is the dot and what follows it, the
\* sentinel has no dot.
Dot(body) == <<".", body>>
NoExtension == <<"no_extension">>

BINARY_EXTENSIONS ==
    { Dot("png"), Dot("jpg"), Dot("jpeg"), Dot("gif"), Dot("bmp"), Dot("ico"),
      Dot("webp"), Dot("ogg"), Dot("mp3"), Dot("wav"), Dot("flac"),
      Dot("ttf"), Dot("woff"), Dot("woff2"), Dot("eot"),
      Dot("bin"), Dot("dat"), Dot("class") }

\* ext[1:] if ext.startswith('.') else ext
Stem(ext) == IF Head(ext) = "." THEN Tail(ext) ELSE ext

\* output_path / f"{stem}_context_{part_num}.txt"
BundlePath(ext, part_num) == [stem |-> Stem(ext), part |-> part_num]

\* The order of the bundle file names that the model uses, as strings.
StemRank(stem) ==
    CASE stem = <<"class">> -> 1
      [] stem = <<"java">> -> 2
      [] stem = <<"no_extension">> -> 3
      [] stem = <<"txt">> -> 4

BundleRank(p) == StemRank(p.stem) * 10 + p.part

\* ------------------------------------------------------------------ sorting
\* list.sort(): a stable sort; `key` gives the rank of each element.
RECURSIVE InsertSorted(_, _, _)
InsertSorted(s, x, kx) ==
    IF s = <<>> THEN <<<<kx, x>>>>
    ELSE IF Head(s)[1] <= kx
         THEN <<Head(s)>> \o InsertSorted(Tail(s), x, kx)
         ELSE <<<<kx, x>>>> \o s

RECURSIVE SortPairs(_)
SortPairs(s) ==
    IF s = <<>> THEN <<>>
    ELSE LET rest == SortPairs([j \in 1..(Len(s) - 1) |-> s[j]])
         IN InsertSorted(rest, s[Len(s)][2], s[Len(s)][1])

SortBundles(s) ==
    LET sorted == SortPairs([j \in 1..Len(s) |-> <<BundleRank(s[j]), s[j]>>])
    IN [j \in 1..Len(s) |-> sorted[j][2]]

SortFiles(s) ==
    LET sorted == SortPairs([j \in 1..Len(s) |-> <<s[j].path, s[j]>>])
    IN [j \in 1..Len(s) |-> sorted[j][2]]

Range(s) == {s[j] : j \in DOMAIN s}

\* Slice with the end index off by one: files[i:i + chunk_size + 1].
SliceInclusive(s, i, n) ==
    [j \in 1..(IF i + n + 1 <= Len(s) THEN n + 1 ELSE Len(s) - i) |-> s[i + j]]

\* Python's files[i:i + chunk_size] for 0 <= i and chunk_size > 0 (0-based i).
Slice(s, i, n) ==
    [j \in 1..(IF i + n <= Len(s) THEN n ELSE Len(s) - i) |-> s[i + j]]

\* ------------------------------------------------------------ create_archives
\* One archive: its number (the name is f'{prefix}_{archive_num}.zip') and its
\* members in the order zipf.write is called.
RECURSIVE ArchiveLoop(_, _, _)
ArchiveLoop(sorted, chunk_size, i) ==
    \* for i in range(0, len(files), chunk_size): a step <= 0 never gets here
    \* with a non-empty range (0 raises earlier, a negative step gives the
    \* empty range).
    IF chunk_size < 0 \/ i >= Len(sorted) THEN <<>>
    ELSE <<[archive_num |-> (i \div chunk_size) + 1,
            members |-> Slice(sorted, i, chunk_size)]>>
         \o ArchiveLoop(sorted, chunk_size, i + chunk_size)

\* The result of create_archives(files, output_path, chunk_size, prefix):
\* the archives written and whether the call raised; `sorted` is the list
\* after files.sort().
PackWith(files, chunk_size, sorted) ==
    IF files = <<>> THEN [raised |-> None, archives |-> <<>>]
    ELSE IF chunk_size = 0
         THEN [raised |-> "ZeroDivisionError", archives |-> <<>>]
         ELSE [raised |-> None, archives |-> ArchiveLoop(sorted, chunk_size, 0)]

create_archives(files, chunk_size) ==
    PackWith(files, chunk_size, SortBundles(files))

\* -------------------------------------------------------- create_context_files
\* The files of an output area: bundle path -> what was written to it.
Truncate(disk, p) == [q \in DOMAIN disk \cup {p} |-> IF q = p THEN <<>> ELSE disk[q]]
Write(disk, p, w) == [disk EXCEPT ![p] = Append(@, w)]

\* header = f"... START: {file_path.relative_to(src_path)} ..."
StartHeader(f) == [kind |-> "header", file |-> f.path]
Content(f) == [kind |-> "content", file |-> f.path, size |-> f.size]

\* State of one call: the locals part_num, current_size and outfile, the list
\* context_files, the output area, the handles that are open, and the
\* exception that ended the call.
AggStart(disk) ==
    [part_num |-> 1, current_size |-> 0, outfile |-> NoFile, context_files |-> <<>>,
     disk |-> disk, open |-> {}, opened |-> 0, raised |-> None]

\* part_num, current_size, outfile = 1, 0, None
KeyBegin(a) == [a EXCEPT !.part_num = 1, !.current_size = 0, !.outfile = NoFile]

\* The split test looking at the bundle as it is, not as it would become.
MustSplitLate(a, f, max_size_bytes) ==
    /\ a.outfile # NoFile
    /\ a.current_size > max_size_bytes
    /\ a.current_size > 0

\* The split test without its `current_size > 0` conjunct.
MustSplitWhenEmpty(a, f, max_size_bytes) ==
    /\ a.outfile # NoFile
    /\ (a.current_size + f.size) > max_size_bytes

\* if outfile and (current_size + file_size) > max_size_bytes and current_size > 0
MustSplit(a, f, max_size_bytes) ==
    /\ a.outfile # NoFile
    /\ (a.current_size + f.size) > max_size_bytes
    /\ a.current_size > 0

\* outfile.close(); outfile, part_num, current_size = None, part_num + 1, 0
SplitPart(a) ==
    [a EXCEPT !.open = @ \ {a.outfile}, !.outfile = NoFile,
              !.part_num = @ + 1, !.current_size = 0]

\* outfile = open(context_filepath, 'w', ...); context_files.append(...)
OpenPart(a, ext) ==
    LET p == BundlePath(ext, a.part_num)
    IN [a EXCEPT !.outfile = p, !.open = @ \cup {p}, !.opened = @ + 1,
                 !.disk = Truncate(@, p), !.context_files = Append(@, p)]

\* The body of `for file_path in files` for one file.  f.fate is what the file
\* system answers: "missing" (stat raises FileNotFoundError), "unreadable"
\* (stat succeeds, read_text raises an OSError) or "ok".  openOK: open() of a
\* new part succeeds.
FileStep(a, ext, f, max_size_bytes, openOK) ==
    IF f.fate = "missing" THEN a
    ELSE LET a1 == IF MustSplit(a, f, max_size_bytes) THEN SplitPart(a) ELSE a
         IN IF a1.outfile = NoFile /\ ~openOK THEN [a1 EXCEPT !.raised = "OSError(open)"]
            ELSE LET a2 == IF a1.outfile = NoFile THEN OpenPart(a1, ext) ELSE a1
                     a3 == [a2 EXCEPT !.disk = Write(@, a2.outfile, StartHeader(f))]
                 IN IF f.fate = "unreadable"
                    THEN [a3 EXCEPT !.raised = "OSError(read_text)"]
                    ELSE [a3 EXCEPT !.disk = Write(@, a3.outfile, Content(f)),
                                    !.current_size = @ + f.size]

\* if outfile: outfile.close()
KeyEnd(a) == IF a.outfile # NoFile THEN [a EXCEPT !.open = @ \ {a.outfile}] ELSE a

RECURSIVE FileLoop(_, _, _, _, _)
FileLoop(a, ext, files, j, max_size_bytes) ==
    IF a.raised # None \/ j > Len(files) THEN a
    ELSE FileLoop(FileStep(a, ext, files[j], max_size_bytes, TRUE),
                  ext, files, j + 1, max_size_bytes)

\* One pass of `for ext, files in grouped_files.items()`.
KeyRun(a, item, max_size_bytes) ==
    IF item.ext \in BINARY_EXTENSIONS THEN a
    ELSE LET b == FileLoop(KeyBegin(a), item.ext, SortFiles(item.files), 1,
                           max_size_bytes)
         IN IF b.raised # None THEN b ELSE KeyEnd(b)

RECURSIVE KeyLoop(_, _, _, _)
KeyLoop(a, grouped_files, k, max_size_bytes) ==
    IF a.raised # None \/ k > Len(grouped_files) THEN a
    ELSE KeyLoop(KeyRun(a, grouped_files[k], max_size_bytes),
                 grouped_files, k + 1, max_size_bytes)

\* create_context_files(grouped_files, output_path, src_path, max_size_mb) into
\* an output area that holds `disk`, every open() succeeding.
create_context_files(grouped_files, disk, max_size_bytes) ==
    KeyLoop(AggStart(disk), grouped_files, 1, max_size_bytes)

\* grouped_files[ext].append(file_path) over the enumeration of the tree: the
\* items of the defaultdict in insertion order.
RECURSIVE GroupFiles(_, _, _)
GroupFiles(enum, j, acc) ==
    IF j > Len(enum) THEN acc
    ELSE LET f == enum[j]
             at == {k \in DOMAIN acc : acc[k].ext = f.ext}
         IN GroupFiles(enum, j + 1,
                IF at = {} THEN Append(acc, [ext |-> f.ext, files |-> <<f>>])
                ELSE [k \in DOMAIN acc |->
                        IF k \in at THEN [acc[k] EXCEPT !.files = Append(@, f)]
                        ELSE acc[k]])

\* ===================================================================== SpecPack
\* create_archives on every list of distinct bundle paths, in every order,
\* and every chunk_size from -1 (argparse's type=int takes any integer).
TextKey == Dot("txt")

PackInputs ==
    { s \in UNION { [1..n -> 1..MaxFiles] : n \in 0..MaxFiles } :
        \A x, y \in DOMAIN s : x # y => s[x] # s[y] }

InitPack ==
    /\ packer \in { [pc |-> "call",
                     files |-> [j \in DOMAIN s |-> BundlePath(TextKey, s[j])],
                     chunk_size |-> c,
                     result |-> None] : s \in PackInputs, c \in -1..MaxChunk }
    /\ ctx = Idle /\ run = Idle /\ det = Idle

Pack ==
    /\ packer.pc = "call"
    /\ packer' = [packer EXCEPT !.pc = "done",
                     !.result = create_archives(packer.files, packer.chunk_size)]
    /\ UNCHANGED <<ctx, run, det>>

NextPack == Pack

SpecPack == InitPack /\ [][NextPack]_vars

\* ====================================================================== SpecCtx
\* create_context_files step by step: one text key of up to MaxCtxFiles files
\* (enumerated in reverse path order, so that files.sort() has work to do), and
\* possibly a binary key before it.
Fates == {"ok", "missing", "unreadable"}

\* The walk ends at the first unreadable file: what follows it is never
\* looked at, and is left "ok".
CtxFileLists ==
    { s \in UNION { [1..n -> (0..MaxFileSize) \X Fates] : n \in 0..MaxCtxFiles } :
        \A x, y \in DOMAIN s : (x < y /\ s[x][2] = "unreadable") => s[y][2] = "ok" }

CtxFile(s, p) ==
    [path |-> p, name |-> p, ext |-> TextKey, size |-> s[p][1], fate |-> s[p][2]]

BinaryFile == [path |-> 0, name |-> 0, ext |-> Dot("class"), size |-> 1, fate |-> "ok"]

CtxEnumeration(s, withBinary) ==
    (IF withBinary THEN <<BinaryFile>> ELSE <<>>)
    \o [j \in 1..Len(s) |-> CtxFile(s, Len(s) + 1 - j)]

InitCtx ==
    /\ ctx \in { [pc |-> "key",
                  grouped_files |-> GroupFiles(CtxEnumeration(s, b), 1, <<>>),
                  max_size_bytes |-> m,
                  k |-> 1, files |-> <<>>, j |-> 1,
                  a |-> AggStart(<<>>)] :
                 s \in CtxFileLists, b \in BOOLEAN, m \in -1..MaxBundleBytes }
    /\ packer = Idle /\ run = Idle /\ det = Idle

\* if ext in BINARY_EXTENSIONS: continue
CtxSkipBinary ==
    /\ ctx.pc = "key" /\ ctx.k <= Len(ctx.grouped_files)
    /\ ctx.grouped_files[ctx.k].ext \in BINARY_EXTENSIONS
    /\ ctx' = [ctx EXCEPT !.k = @ + 1]
    /\ UNCHANGED <<packer, run, det>>

\* files.sort(); part_num, current_size, outfile = 1, 0, None
CtxBeginKey ==
    /\ ctx.pc = "key" /\ ctx.k <= Len(ctx.grouped_files)
    /\ ctx.grouped_files[ctx.k].ext \notin BINARY_EXTENSIONS
    /\ ctx' = [ctx EXCEPT !.pc = "file", !.j = 1,
                          !.files = SortFiles(ctx.grouped_files[ctx.k].files),
                          !.a = KeyBegin(@)]
    /\ UNCHANGED <<packer, run, det>>

\* one pass of the body of `for file_path in files`
CtxFileBody ==
    /\ ctx.pc = "file" /\ ctx.j <= Len(ctx.files)
    /\ \E openOK \in BOOLEAN :
         LET b == FileStep(ctx.a, ctx.grouped_files[ctx.k].ext, ctx.files[ctx.j],
                           ctx.max_size_bytes, openOK)
         IN ctx' = [ctx EXCEPT !.a = b,
                               !.j = IF b.raised = None THEN @ + 1 ELSE @,
                               !.pc = IF b.raised = None THEN "file" ELSE "raised"]
    /\ UNCHANGED <<packer, run, det>>

\* if outfile: outfile.close()
CtxEndKey ==
    /\ ctx.pc = "file" /\ ctx.j > Len(ctx.files)
    /\ ctx' = [ctx EXCEPT !.pc = "key", !.k = @ + 1, !.a = KeyEnd(@)]
    /\ UNCHANGED <<packer, run, det>>

\* return context_files
CtxReturn ==
    /\ ctx.pc = "key" /\ ctx.k > Len(ctx.grouped_files)
    /\ ctx' = [ctx EXCEPT !.pc = "returned"]
    /\ UNCHANGED <<packer, run, det>>

NextCtx == CtxSkipBinary \/ CtxBeginKey \/ CtxFileBody \/ CtxEndKey \/ CtxReturn

SpecCtx == InitCtx /\ [][NextCtx]_vars

\* ===================================================================== SpecMain
\* main(): the loop over the sorted jar_files, in Individual mode (context or
\* direct) and in Combined mode.  Jar j is jar_files[j - 1]; its name stands
\* for jar_path.name and jar_path.stem.  Output area j is _decompiled_<stem>
\* of jar j, output area 0 is _decompiled_combined_<input_dir.name>.
NumJars == 3

TreeFile(path, name, ext, size, fate) ==
    [path |-> path, name |-> name, ext |-> ext, size |-> size, fate |-> fate]

\* What temp_dir.rglob('*') may enumerate after a successful decompile_jar.
Trees ==
    { <<>>,
      << TreeFile(2, "B.txt", TextKey, 2, "ok"), TreeFile(1, "A.txt", TextKey, 2, "ok") >>,
      << TreeFile(1, "A.txt", TextKey, 1, "ok"), TreeFile(3, "C.class", Dot("class"), 1, "ok") >>,
      << TreeFile(1, "A.txt", TextKey, 1, "missing"), TreeFile(2, "B.txt", TextKey, 1, "ok") >>,
      << TreeFile(1, "A.txt", TextKey, 1, "ok"), TreeFile(2, "B.java", Dot("java"), 1, "unreadable") >> }

EmptyArea == [exists |-> FALSE, disk |-> <<>>, archives |-> <<>>]

SeqOfSet(S) == CHOOSE s \in [1..Cardinality(S) -> S] : Range(s) = S

\* header = f"... SOURCE JAR: {jar_path.name} ... FILE: {file_path.name} ..."
CombinedHeaderNoJar(jar, f) == [kind |-> "header", jar |-> 0, file |-> f.name]

CombinedHeader(jar, f) == [kind |-> "header", jar |-> jar, file |-> f.name]

\* open(context_filepath, 'a', ...): the file is created when it is not there
Touch(disk, p) == IF p \in DOMAIN disk THEN disk ELSE Truncate(disk, p)

\* for file_path in sorted(files): write the header, read the file, write the
\* content.  read_text raises FileNotFoundError on a file that is gone and an
\* OSError on one that cannot be read; neither is caught.
RECURSIVE CombinedFileLoop(_, _, _, _, _)
CombinedFileLoop(r, jar, p, files, j) ==
    IF r.raised # None \/ j > Len(files) THEN r
    ELSE LET f == files[j]
             h == [r EXCEPT !.areas[0].disk = Write(@, p, CombinedHeader(jar, f))]
         IN CombinedFileLoop(
                IF f.fate = "missing" THEN [h EXCEPT !.raised = "FileNotFoundError"]
                ELSE IF f.fate = "unreadable" THEN [h EXCEPT !.raised = "OSError(read_text)"]
                ELSE [h EXCEPT !.areas[0].disk = Write(@, p, Content(f))],
                jar, p, files, j + 1)

\* One pass of `for ext, files in current_jar_groups.items()`.
CombinedKey(r, jar, item) ==
    IF item.ext \in BINARY_EXTENSIONS THEN r
    ELSE LET p == BundlePath(item.ext, 1)
             o == IF item.ext \in DOMAIN r.open_files THEN r
                  ELSE [r EXCEPT !.open_files = (item.ext :> p) @@ @,
                                 !.open = @ \cup {item.ext},
                                 !.areas[0].disk = Touch(@, p),
                                 !.created_context_files = @ \cup {p}]
         IN CombinedFileLoop(o, jar, o.open_files[item.ext], SortFiles(item.files), 1)

RECURSIVE CombinedKeyLoop(_, _, _, _)
CombinedKeyLoop(r, jar, groups, k) ==
    IF r.raised # None \/ k > Len(groups) THEN r
    ELSE CombinedKeyLoop(CombinedKey(r, jar, groups[k]), jar, groups, k + 1)

\* Combined mode, the body under `if decompile_jar(...)`.
CombinedProcess(r) ==
    CombinedKeyLoop(r, r.i, GroupFiles(r.tree, 1, <<>>), 1)

\* Individual mode, args.mode == 'context'.
IndividualContext(r) ==
    LET res == create_context_files(GroupFiles(r.tree, 1, <<>>),
                                    r.areas[r.i].disk, r.args.max_size_bytes)
    IN IF res.raised # None
       THEN [r EXCEPT !.areas[r.i].disk = res.disk, !.leaked = @ \cup res.open,
                      !.raised = res.raised]
       ELSE LET pk == create_archives(res.context_files, r.args.size)
            IN [r EXCEPT !.areas[r.i].disk = res.disk,
                         !.areas[r.i].archives = pk.archives,
                         !.raised = pk.raised]

\* Individual mode, args.mode == 'direct'.
IndividualDirect(r) ==
    LET pk == PackWith(r.tree, r.args.size, SortFiles(r.tree))
    IN [r EXCEPT !.areas[r.i].archives = pk.archives, !.raised = pk.raised]

\* decompile_jar returned False: logged, nothing raised.
DecompileFailedFatal(r) ==
    [r EXCEPT !.extracted[r.i] = "failed", !.raised = "CalledProcessError", !.pc = "exit"]

DecompileFailed(r) == [r EXCEPT !.extracted[r.i] = "failed", !.pc = "exit"]

\* tempfile.TemporaryDirectory().__exit__: runs however the block is left.
ExitScratchUnlessRaised(r) ==
    IF r.raised = None THEN [r EXCEPT !.scratch = @ \ {r.i}] ELSE r

ExitScratch(r) == [r EXCEPT !.scratch = @ \ {r.i}]

\* finally: for handle in open_files.values(): handle.close()
CloseAllUnlessRaised(r) == IF r.raised = None THEN [r EXCEPT !.open = {}] ELSE r

CloseAll(r) == [r EXCEPT !.open = @ \ DOMAIN r.open_files]

InitMain ==
    /\ run \in { [pc |-> "loop",
                  args |-> [combine |-> c, mode |-> m, size |-> z, max_size_bytes |-> x],
                  i |-> 1, scratch |-> {}, tree |-> <<>>,
                  extracted |-> [j \in 1..NumJars |-> "pending"],
                  trees |-> [j \in 1..NumJars |-> <<>>],
                  areas |-> [j \in 0..NumJars |-> [EmptyArea EXCEPT !.exists = (c /\ j = 0)]],
                  open_files |-> <<>>, open |-> {}, created_context_files |-> {},
                  leaked |-> {}, raised |-> None] :
                c \in BOOLEAN, m \in {"context", "direct"},
                z \in {-1, 0, 1, MaxChunk}, x \in {MaxFileSize, MaxBundleBytes} }
    /\ packer = Idle /\ ctx = Idle /\ det = Idle

\* The head of the loop body: output_path.mkdir (Individual mode) and
\* `with tempfile.TemporaryDirectory()`.
EnterJar ==
    /\ run.pc = "loop" /\ run.i <= NumJars
    /\ run' = [run EXCEPT !.pc = "decompile", !.scratch = @ \cup {run.i}, !.tree = <<>>,
                          !.areas[run.i].exists = @ \/ ~run.args.combine]
    /\ UNCHANGED <<packer, ctx, det>>

DecompileOk ==
    /\ run.pc = "decompile"
    /\ \E t \in Trees :
         run' = [run EXCEPT !.pc = "process", !.tree = t, !.trees[run.i] = t,
                            !.extracted[run.i] = "ok"]
    /\ UNCHANGED <<packer, ctx, det>>

DecompileFail ==
    /\ run.pc = "decompile"
    /\ run' = DecompileFailed(run)
    /\ UNCHANGED <<packer, ctx, det>>

ProcessCombined ==
    /\ run.pc = "process" /\ run.args.combine
    /\ run' = [CombinedProcess(run) EXCEPT !.pc = "exit"]
    /\ UNCHANGED <<packer, ctx, det>>

ProcessContext ==
    /\ run.pc = "process" /\ ~run.args.combine /\ run.args.mode = "context"
    /\ run' = [IndividualContext(run) EXCEPT !.pc = "exit"]
    /\ UNCHANGED <<packer, ctx, det>>

ProcessDirect ==
    /\ run.pc = "process" /\ ~run.args.combine /\ run.args.mode = "direct"
    /\ run' = [IndividualDirect(run) EXCEPT !.pc = "exit"]
    /\ UNCHANGED <<packer, ctx, det>>

\* Leaving the with block: the scratch directory goes; an exception in flight
\* leaves the loop (to the finally clause in Combined mode, out of main
\* otherwise), and else the loop goes on to the next jar.
ExitJar ==
    /\ run.pc = "exit"
    /\ run' = [ExitScratch(run) EXCEPT
                  !.tree = <<>>,
                  !.i = IF run.raised = None THEN @ + 1 ELSE @,
                  !.pc = IF run.raised = None THEN "loop"
                         ELSE IF run.args.combine THEN "finally" ELSE "aborted"]
    /\ UNCHANGED <<packer, ctx, det>>

\* Combined mode: the finally clause, after the loop or with an exception in
\* flight, which then leaves main.
FinallyClose ==
    /\ run.args.combine
    /\ \/ run.pc = "loop" /\ run.i > NumJars
       \/ run.pc = "finally"
    /\ run' = [CloseAll(run) EXCEPT !.pc = IF run.raised = None THEN "pack" ELSE "aborted"]
    /\ UNCHANGED <<packer, ctx, det>>

\* create_archives(list(created_context_files), output_path, args.size, ...)
PackCombined ==
    /\ run.pc = "pack"
    /\ LET pk == create_archives(SeqOfSet(run.created_context_files), run.args.size)
       IN run' = [run EXCEPT !.areas[0].archives = pk.archives, !.raised = pk.raised,
                             !.pc = IF pk.raised = None THEN "done" ELSE "aborted"]
    /\ UNCHANGED <<packer, ctx, det>>

\* Individual mode: the loop is over.
FinishIndividual ==
    /\ run.pc = "loop" /\ run.i > NumJars /\ ~run.args.combine
    /\ run' = [run EXCEPT !.pc = "done"]
    /\ UNCHANGED <<packer, ctx, det>>

NextMain ==
    \/ EnterJar \/ DecompileOk \/ DecompileFail
    \/ ProcessCombined \/ ProcessContext \/ ProcessDirect
    \/ ExitJar \/ FinallyClose \/ PackCombined \/ FinishIndividual

SpecMain == InitMain /\ [][NextMain]_vars

\* ====================================================================== SpecDet
\* Aggregation and packing of one extracted tree, run twice in Individual
\* mode with the same configuration, each time into an empty output area:
\* the first run sees the files in path order, the second in any order.
MaxTreeFiles == 3

DetKeys == { TextKey, NoExtension, Dot("no_extension"), Dot("class") }

Orders(n) ==
    { f \in [1..n -> 1..n] : \A x, y \in 1..n : x # y => f[x] # f[y] }

\* What one run leaves in the output area.
RunOnce(enum, mode, size, max_size_bytes) ==
    IF mode = "context"
    THEN LET res == create_context_files(GroupFiles(enum, 1, <<>>), <<>>, max_size_bytes)
         IN [bundles |-> res.disk,
             archives |-> create_archives(res.context_files, size).archives]
    ELSE [bundles |-> <<>>,
          archives |-> PackWith(enum, size, SortFiles(enum)).archives]

DetInputs(n) ==
    { [pc |-> "start",
       tree |-> [p \in 1..n |-> TreeFile(p, p, e[p], 1, "ok")],
       order |-> o, mode |-> m,
       size |-> MaxChunk, max_size_bytes |-> MaxFileSize,
       first |-> None, second |-> None] :
      m \in {"context", "direct"}, e \in [1..n -> DetKeys], o \in Orders(n) }

InitDet ==
    /\ det \in UNION { DetInputs(n) : n \in 0..MaxTreeFiles }
    /\ packer = Idle /\ ctx = Idle /\ run = Idle

\* The files of the tree in the order rglob gives them.
Enumerated(tree, order) == [x \in 1..Len(tree) |-> tree[order[x]]]

FirstRun ==
    /\ det.pc = "start"
    /\ det' = [det EXCEPT !.pc = "ran1",
                  !.first = RunOnce(det.tree, det.mode, det.size, det.max_size_bytes)]
    /\ UNCHANGED <<packer, ctx, run>>

SecondRun ==
    /\ det.pc = "ran1"
    /\ det' = [det EXCEPT !.pc = "ran2",
                  !.second = RunOnce(Enumerated(det.tree, det.order), det.mode,
                                     det.size, det.max_size_bytes)]
    /\ UNCHANGED <<packer, ctx, run>>

NextDet == FirstRun \/ SecondRun

SpecDet == InitDet /\ [][NextDet]_vars

\* ============================================================ claims: SpecPack
RECURSIVE MemberCount(_)
MemberCount(archives) ==
    IF archives = <<>> THEN 0
    ELSE Len(Head(archives).members) + MemberCount(Tail(archives))

\* The archives contain at most chunk_size members each, their member counts
\* sum to len(files), and every file is a member exactly once.
ArchivesPartition(files, chunk_size, result) ==
    LET ar == result.archives
    IN /\ result.raised = None
       /\ \A n \in DOMAIN ar : Len(ar[n].members) <= chunk_size
       /\ MemberCount(ar) = Len(files)
       /\ \A f \in Range(files) :
            Cardinality({ <<n, j>> \in (DOMAIN ar) \X (1..Len(files)) :
                            j <= Len(ar[n].members) /\ ar[n].members[j] = f }) = 1

\* C1 as stated: for every list of distinct files and EVERY chunk_size the
\* archives partition the files into archives of at most chunk_size members.
C1_PartitionForEveryChunkSize ==
    packer.pc = "done" =>
        ArchivesPartition(packer.files, packer.chunk_size, packer.result)

\* C1 amended: for every list of distinct files and every chunk_size >= 1, each
\* archive has at most chunk_size members, the member counts sum to len(files)
\* and every file is a member of exactly one archive.
C1_PartitionForPositiveChunkSize ==
    (packer.pc = "done" /\ packer.chunk_size >= 1) =>
        ArchivesPartition(packer.files, packer.chunk_size, packer.result)

\* C1 witness: files packed into more than one archive, the last one smaller
\* (4 files in chunks of 3 give archives of 3 and 1).
C1_Witness ==
    /\ packer.pc = "done" /\ packer.chunk_size = MaxChunk
    /\ Len(packer.files) = MaxChunk + 1
    /\ Len(packer.result.archives) = 2
    /\ Len(packer.result.archives[1].members) = MaxChunk
    /\ Len(packer.result.archives[2].members) = 1
    /\ packer.result.archives[2].archive_num = 2

\* ============================================================= claims: SpecCtx
RECURSIVE SizeOf(_)
SizeOf(bundle) ==
    IF bundle = <<>> THEN 0
    ELSE (IF Head(bundle).kind = "content" THEN Head(bundle).size ELSE 0)
         + SizeOf(Tail(bundle))

\* The sizes of the files whose content a bundle holds, in order.
ContentSizes(bundle) ==
    LET at == { j \in DOMAIN bundle : bundle[j].kind = "content" }
    IN [n \in 1..Cardinality(at) |->
          bundle[CHOOSE j \in at : Cardinality({h \in at : h <= j}) = n].size]

\* C2 as stated (here for the maxima M >= 0 alone): every bundle's size is at
\* most M, except a bundle that contains exactly one file whose size alone
\* exceeds M.
C2_WithinMaxUnlessSingleFile ==
    ctx.max_size_bytes >= 0 =>
    \A p \in DOMAIN ctx.a.disk :
        LET sizes == ContentSizes(ctx.a.disk[p])
        IN \/ SizeOf(ctx.a.disk[p]) <= ctx.max_size_bytes
           \/ (Len(sizes) = 1 /\ sizes[1] > ctx.max_size_bytes)

\* C2 amended: every bundle's size (the sum of the sizes of its files) is at
\* most M, except a bundle whose size was 0 when its last file was appended:
\* the files before the last one are all empty, and the last is never split.
C2_WithinMaxUnlessLastAppendedToEmpty ==
    \A p \in DOMAIN ctx.a.disk :
        LET sizes == ContentSizes(ctx.a.disk[p])
        IN \/ SizeOf(ctx.a.disk[p]) <= ctx.max_size_bytes
           \/ \A n \in 1..(Len(sizes) - 1) : sizes[n] = 0

\* C2 witness: a call returned leaving a bundle over the maximum that holds an
\* empty file and then one oversized file, and another bundle after it.
C2_Witness ==
    /\ ctx.pc = "returned" /\ ctx.max_size_bytes >= 0
    /\ \E p, q \in DOMAIN ctx.a.disk :
         /\ p.part < q.part
         /\ SizeOf(ctx.a.disk[p]) > ctx.max_size_bytes
         /\ Len(ContentSizes(ctx.a.disk[p])) = 2

\* C5: whenever a call ends, by returning or by raising, every bundle handle
\* it opened has been closed.
C5_NoHandleLeftOpen ==
    ctx.pc \in {"returned", "raised"} => ctx.a.open = {}

\* The paths of the files whose header a bundle holds, in order.
HeaderFiles(bundle) ==
    LET at == { j \in DOMAIN bundle : bundle[j].kind = "header" }
    IN [n \in 1..Cardinality(at) |->
          bundle[CHOOSE j \in at : Cardinality({h \in at : h <= j}) = n].file]

\* One pass of the loop body over a file that exists and is read: the part
\* number goes up by one exactly when the current bundle is non-empty and the
\* file would take it over the maximum, and stays otherwise; the file's
\* record goes to the end of that part, which is new when the number went up;
\* the first part opened is part 1.
C10_Step ==
    (/\ ctx.pc = "file" /\ ctx.j <= Len(ctx.files)
     /\ ctx.files[ctx.j].fate = "ok" /\ ctx'.a.raised = None
     /\ ctx' # ctx)
    => LET f == ctx.files[ctx.j]
           a == ctx.a
           b == ctx'.a
           ext == ctx.grouped_files[ctx.k].ext
           split == a.current_size > 0 /\ a.current_size + f.size > ctx.max_size_bytes
           target == BundlePath(ext, b.part_num)
           before == IF split \/ target \notin DOMAIN a.disk THEN <<>>
                     ELSE a.disk[target]
       IN /\ (b.part_num = a.part_num + 1) <=> split
          /\ ~split => b.part_num = a.part_num
          /\ a.outfile = NoFile => b.part_num = 1
          /\ b.outfile = target
          /\ b.disk[target] = before \o <<StartHeader(f), Content(f)>>
          /\ \A p \in DOMAIN a.disk : p # target => b.disk[p] = a.disk[p]

\* Three files of 40MB with a maximum of 100MB (2, 2, 2 and 5 in units of
\* 20MB): bundle 1 holds files 1-2, bundle 2 holds file 3.
C10_ScenarioInput ==
    /\ ctx.max_size_bytes = 5
    /\ Len(ctx.grouped_files) = 1
    /\ Len(ctx.grouped_files[1].files) = 3
    /\ \A j \in 1..3 : /\ ctx.grouped_files[1].files[j].size = 2
                       /\ ctx.grouped_files[1].files[j].fate = "ok"

C10_Scenario ==
    (ctx.pc = "returned" /\ C10_ScenarioInput) =>
        /\ DOMAIN ctx.a.disk = {BundlePath(TextKey, 1), BundlePath(TextKey, 2)}
        /\ HeaderFiles(ctx.a.disk[BundlePath(TextKey, 1)]) = <<1, 2>>
        /\ SizeOf(ctx.a.disk[BundlePath(TextKey, 1)]) = 4
        /\ HeaderFiles(ctx.a.disk[BundlePath(TextKey, 2)]) = <<3>>
        /\ SizeOf(ctx.a.disk[BundlePath(TextKey, 2)]) = 2

\* C10: walking a key's files in sorted order, a new part is opened before a
\* file if and only if the current bundle is non-empty and current size +
\* file size exceeds the maximum, otherwise the file is appended to the
\* current part; part numbers start at 1 and go up by one per new part; three
\* files of 40MB with a 100MB maximum give bundles of files 1-2 and file 3.
C10_SplitRule == [][C10_Step]_vars /\ []C10_Scenario

\* C10 witness: the 40/40/40 scenario has returned with its two parts.
C10_Witness ==
    /\ ctx.pc = "returned" /\ C10_ScenarioInput
    /\ Len(ctx.a.context_files) = 2

\* ============================================================ claims: SpecMain
Jars == 1..NumJars
Individual == run.pc # "idle" /\ ~run.args.combine
Combined == run.pc # "idle" /\ run.args.combine

TextFiles(tree) ==
    { tree[x] : x \in { y \in DOMAIN tree : tree[y].ext \notin BINARY_EXTENSIONS } }

Headers(disk) ==
    UNION { { <<p, n>> : n \in { m \in DOMAIN disk[p] : disk[p][m].kind = "header" } } :
            p \in DOMAIN disk }

\* The bundles hold a header for file f of jar j.
HasRecord(j, f) ==
    IF run.args.combine
    THEN \E h \in Headers(run.areas[0].disk) :
            /\ run.areas[0].disk[h[1]][h[2]].jar = j
            /\ run.areas[0].disk[h[1]][h[2]].file = f.name
    ELSE \E h \in Headers(run.areas[j].disk) :
            run.areas[j].disk[h[1]][h[2]].file = f.path

ArchiveMembers(archives) == UNION { Range(archives[n].members) : n \in DOMAIN archives }

\* What the output area of a jar holds when its tree was aggregated and
\* packed with nothing raised: in context mode one record for each text file
\* that was there to read, binary files left out, and (for a chunk size of at
\* least 1) archives whose members are the bundles; in direct mode archives
\* whose members are the files of the tree.
ExpectedContents(area, tree, args) ==
    IF args.mode = "context"
    THEN /\ \A f \in TextFiles(tree) :
              Cardinality({ h \in Headers(area.disk) :
                              area.disk[h[1]][h[2]].file = f.path })
              = IF f.fate = "missing" THEN 0 ELSE 1
         /\ Cardinality(Headers(area.disk))
              = Cardinality({ f \in TextFiles(tree) : f.fate # "missing" })
         /\ \A p \in DOMAIN area.disk : p.stem \in { Stem(f.ext) : f \in TextFiles(tree) }
         /\ args.size >= 1 => ArchiveMembers(area.archives) = DOMAIN area.disk
    ELSE /\ area.disk = <<>>
         /\ args.size >= 1 => ArchiveMembers(area.archives) = Range(tree)

\* A failed extraction writes nothing into the jar's output area and raises
\* nothing; only an exception aborts the run; a complete run has extracted
\* every jar, and every jar extracted with success has its expected contents.
C3_State ==
    Individual =>
      /\ \A j \in Jars : run.extracted[j] = "failed" =>
            /\ run.areas[j].disk = <<>>
            /\ run.areas[j].archives = <<>>
      /\ run.raised # None => run.extracted[run.i] = "ok"
      /\ run.pc = "aborted" => run.raised # None
      /\ run.pc = "done" =>
            \A j \in Jars :
               /\ run.extracted[j] # "pending"
               /\ run.areas[j].exists
               /\ run.extracted[j] = "ok" =>
                     ExpectedContents(run.areas[j], run.trees[j], run.args)

\* The step after a failed extraction goes back to the head of the loop for
\* the next jar (or to the end of the run after the last one).
C3_Step ==
    (Individual /\ run.pc = "exit" /\ run.extracted[run.i] = "failed" /\ run' # run)
    => /\ run'.pc = "loop" /\ run'.i = run.i + 1 /\ run'.raised = None
       /\ run'.areas = run.areas

\* C3: in Individual mode a failed extraction skips that jar's aggregation
\* and packing alone: nothing is written into its output area, the run is not
\* aborted by it, the loop goes on to the next jar, and when the run
\* completes every jar was extracted and every jar extracted with success has
\* its expected contents.
C3_ExtractFailureSkipsOneUnit == []C3_State /\ [][C3_Step]_vars

\* C3 witness: the run of [A, B, C] is complete, B failed to extract, A and C
\* have bundles and archives.
C3_Witness ==
    /\ Individual /\ run.pc = "done" /\ run.args.mode = "context"
    /\ run.extracted[1] = "ok" /\ run.extracted[2] = "failed" /\ run.extracted[3] = "ok"
    /\ run.areas[1].archives # <<>> /\ run.areas[3].archives # <<>>
    /\ run.areas[2] = [EmptyArea EXCEPT !.exists = TRUE]

\* C4: in both modes the scratch directory of a jar is gone before the next
\* jar starts extracting and once the loop is left, whether the extraction
\* succeeded, failed or the processing raised; at most one exists at any time.
C4_OneScratchDirectory ==
    run.pc # "idle" =>
      /\ Cardinality(run.scratch) <= 1
      /\ run.pc \in {"decompile", "process", "exit"} => run.scratch = {run.i}
      /\ run.pc \in {"loop", "finally", "pack", "done", "aborted"} => run.scratch = {}

\* C4 witness: the first jar failed to extract, the processing of the second
\* raised, and the exception has left the loop with no scratch directory.
C4_Witness ==
    /\ run.pc \in {"finally", "aborted"} /\ run.raised # None
    /\ run.i = 2 /\ run.extracted[1] = "failed" /\ run.extracted[2] = "ok"
    /\ run.scratch = {}

\* C6: in Combined mode every handle opened in the loop is tracked in
\* open_files and closed by the finally clause, which runs when the loop
\* ends and when an exception leaves it; packing starts with no handle open.
C6_CombinedHandlesClosed ==
    Combined =>
      /\ run.open \subseteq DOMAIN run.open_files
      /\ run.pc \in {"loop", "decompile"} =>
            run.open = DOMAIN run.open_files
      /\ run.pc \in {"pack", "done", "aborted"} => run.open = {}

\* C6 witness: an exception left the loop with two handles tracked, and both
\* are closed.
C6_Witness ==
    /\ Combined /\ run.pc = "aborted" /\ run.raised = "OSError(read_text)"
    /\ Cardinality(DOMAIN run.open_files) = 2
    /\ run.open = {}

\* C7: in Combined mode two files of two different jars that share a
\* non-binary key are both in the key's part-1 bundle, each under its own
\* header, which names its jar and differs from the other's.
C7_SharedKeySharedBundle ==
    (Combined /\ run.pc \in {"pack", "done"}) =>
      \A j1, j2 \in Jars :
        (j1 # j2 /\ run.extracted[j1] = "ok" /\ run.extracted[j2] = "ok") =>
          \A f1 \in TextFiles(run.trees[j1]), f2 \in TextFiles(run.trees[j2]) :
            f1.ext = f2.ext =>
              LET b == run.areas[0].disk[BundlePath(f1.ext, 1)]
              IN \E n1, n2 \in DOMAIN b :
                   /\ b[n1].kind = "header" /\ b[n1].jar = j1 /\ b[n1].file = f1.name
                   /\ b[n2].kind = "header" /\ b[n2].jar = j2 /\ b[n2].file = f2.name
                   /\ b[n1] # b[n2]
                   /\ b[n1 + 1] = Content(f1) /\ b[n2 + 1] = Content(f2)

\* C7 witness: a Combined run is complete in which jars 1 and 2 both held a
\* file A.txt.
C7_Witness ==
    /\ Combined /\ run.pc = "done"
    /\ \E x \in DOMAIN run.trees[1], y \in DOMAIN run.trees[2] :
          /\ run.trees[1][x].name = "A.txt" /\ run.trees[2][y].name = "A.txt"
    /\ Len(run.areas[0].disk[BundlePath(TextKey, 1)]) >= 4

\* C8: in both modes a file that is gone when the aggregator reaches it is
\* skipped: no header of it is in any bundle, the other files of its tree are
\* aggregated, and no exception comes of it.
C8_MissingFileSkipped ==
    (run.pc # "idle" /\ (run.args.combine \/ run.args.mode = "context")) =>
      /\ run.raised # "FileNotFoundError"
      /\ \A j \in Jars : \A f \in TextFiles(run.trees[j]) :
           f.fate = "missing" => ~HasRecord(j, f)
      /\ (run.pc = "exit" /\ run.extracted[run.i] = "ok") =>
           \A f, g \in TextFiles(run.tree) :
             (f.fate = "ok" /\ g.fate = "missing") => HasRecord(run.i, f)

\* ============================================================= claims: SpecDet
\* C9: two runs of aggregation and packing on the same tree with the same
\* configuration leave the same bundles with the same records in the same
\* order and the same archives with the same members in the same order,
\* whatever order the files were enumerated in.
C9_SameResultInAnyOrder ==
    det.pc = "ran2" => det.second = det.first

====
